---- MODULE Spec2Model ----
(***************************************************************************)
(* Frida integration of httptoolkit-server                                 *)
(* (src/interceptors/frida/frida-integration.ts): killProcess,             *)
(* testAndSelectProxyAddress and launchScript running against one          *)
(* FridaAgentSession, with promises, timers and message delivery made      *)
(* explicit.                                                               *)
(*                                                                         *)
(* An error value is its cause chain: a sequence of layers, outermost      *)
(* first, so that Tail(err) is err.cause.  A message text is the sequence  *)
(* of the pieces the template literal concatenates.                        *)
(***************************************************************************)
EXTENDS Integers, Sequences, FiniteSets, TLC

(* ------------------------------ bounds -------------------------------- *)

\* number of addresses getReachableInterfaces() may return
MaxIfaces == 1
\* number of addresses options.extraAddresses may hold
MaxExtra == 1
\* time (ms) after which the model stops counting how long buildIpTestScript takes
MaxBuildMs == 1000
\* time (ms) up to which the model counts the wait of a negotiation nothing ends
MaxWaitMs == 2500
\* time (ms) after which the model stops counting how long killProcess takes
MaxKillMs == 300
\* number of getFridaServer calls
MaxRequests == 2

(* ------------------------- program constants -------------------------- *)

\* withTimeout(2000, ...)
PROXY_TEST_TIMEOUT_MS == 2000
\* delay(100)
KILL_GRACE_MS == 100

(* ------------------------------ inputs -------------------------------- *)

\* The model holds two calls: 1 is the call the caller made last, 2 is what is
\* left of the calls made before it (see Left).
OpIds == {1, 2}

IfacePool == <<"10.0.0.2", "10.0.0.3", "10.0.0.4">>
ExtraPool == <<"192.168.1.5", "172.16.0.9", "172.16.0.10">>

Min(a, b) == IF a < b THEN a ELSE b

\* the prefixes of pool of length at most n
Prefixes(pool, n) == { SubSeq(pool, 1, k) : k \in 0..Min(n, Len(pool)) }

\* what getReachableInterfaces().map(a => a.address) can be
InterfaceAddresses == Prefixes(IfacePool, MaxIfaces)

\* what options.extraAddresses can be: undefined, or an array
ExtraAddresses ==
    {[present |-> FALSE, addrs |-> <<>>]}
        \cup {[present |-> TRUE, addrs |-> s] : s \in Prefixes(ExtraPool, MaxExtra)}

ProxyPorts == {8000}

TargetNames == {"com.example.app", "com.other.app"}

\* the amounts of time one step of the clock may take
TickSteps == {1000, 2000}

(* ------------------------------ messages ------------------------------ *)

\* the ips a 'connected' payload may carry
ReportedIps == {"10.0.0.2", "203.0.113.7"}

\* log payloads, as sequences of characters
LogPayloads == {<<>>, <<" ">>, <<" ", "h", "i", " ">>}

Messages ==
    {[type |-> "send", payload |-> "connected", ip |-> a, description |-> "",
      level |-> "", text |-> <<>>] : a \in ReportedIps}
    \cup {[type |-> "send", payload |-> p, ip |-> "", description |-> "",
           level |-> "", text |-> <<>>] : p \in {"connection-failed", "progress"}}
    \cup {[type |-> "error", payload |-> "", ip |-> "", description |-> d,
           level |-> "", text |-> <<>>] : d \in {"ReferenceError", "TypeError"}}
    \cup {[type |-> "log", payload |-> "", ip |-> "", description |-> "",
           level |-> "info", text |-> t] : t \in LogPayloads}

NoMessage ==
    [type |-> "none", payload |-> "", ip |-> "", description |-> "",
     level |-> "", text |-> <<>>]

(* ------------------------------- errors ------------------------------- *)

Layer(cls, code, text) == [cls |-> cls, code |-> code, text |-> text]

\* new Error(text)
PlainError(text) == <<Layer("Error", "", text)>>

\* new CustomError(text, { cause, code })
CustomError(text, code, cause) == <<Layer("CustomError", code, text)>> \o cause

\* new FridaScriptError(message)
FridaScriptError(message) ==
    <<Layer("FridaScriptError", "frida-script-error", <<message.description>>)>>

\* new FridaProxyError(message, { cause })
FridaProxyError(text, cause) ==
    <<Layer("FridaProxyError", "unreachable-proxy", text)>> \o cause

\* e instanceof FridaProxyError
IsFridaProxyError(e) == Len(e) > 0 /\ e[1].cls = "FridaProxyError"

\* the rejections of the external calls
BuildError == PlainError(<<"ENOENT: frida script template">>)
CreateScriptError == PlainError(<<"createScript failed">>)
LoadScriptError == PlainError(<<"loadScript failed">>)
\* what withTimeout rejects with when the delay wins the race
TimeoutError == PlainError(<<"Timeout">>)

(* ------------------------------- texts -------------------------------- *)

RECURSIVE Join(_, _)
\* Array.prototype.join on the pieces
Join(s, sep) ==
    IF Len(s) = 0 THEN <<>>
    ELSE IF Len(s) = 1 THEN <<s[1]>>
    ELSE <<s[1], sep>> \o Join(Tail(s), sep)

RECURSIVE Quoted(_)
\* each string of the array as JSON writes it
Quoted(s) ==
    IF Len(s) = 0 THEN <<>> ELSE <<"\"" \o s[1] \o "\"">> \o Quoted(Tail(s))

\* JSON.stringify of an array of strings
JsonStringify(s) == <<"[">> \o Join(Quoted(s), ",") \o <<"]">>

IsSpace(c) == c \in {" ", "\t", "\n"}

RECURSIVE TrimStart(_)
TrimStart(t) == IF Len(t) > 0 /\ IsSpace(t[1]) THEN TrimStart(Tail(t)) ELSE t

RECURSIVE TrimEnd(_)
TrimEnd(t) ==
    IF Len(t) > 0 /\ IsSpace(t[Len(t)]) THEN TrimEnd(SubSeq(t, 1, Len(t) - 1)) ELSE t

\* a trim that removes nothing
NoTrim(t) == t

\* String.prototype.trim
Trim(t) == TrimEnd(TrimStart(t))

\* the message naming the first candidate only
ConnectionFailedTextFirstOnly(ipList, port) ==
    <<"Could not connect to proxy on port ", ToString(port), " at ">>
        \o (IF Len(ipList) > 0 THEN <<ipList[1]>> ELSE <<"undefined">>)

\* `Could not connect to proxy on port ${proxyPort} at ${...}`
ConnectionFailedText(ipList, port) ==
    <<"Could not connect to proxy on port ", ToString(port), " at ">>
        \o (IF Len(ipList) > 1 THEN <<"any of: ">> \o Join(ipList, ", ")
            ELSE IF Len(ipList) = 1 THEN <<ipList[1]>>
            ELSE <<"undefined">>)

\* `Proxy IP detection on target device failed for port ${proxyPort} and IPs ${...}`
DetectionFailedText(ipList, port) ==
    <<"Proxy IP detection on target device failed for port ", ToString(port),
      " and IPs ">> \o JsonStringify(ipList)

(* ------------------------------ promises ------------------------------ *)

Pending == [state |-> "pending", ip |-> "", err |-> <<>>]
Fulfilled(ip) == [state |-> "fulfilled", ip |-> ip, err |-> <<>>]
Rejected(e) == [state |-> "rejected", ip |-> "", err |-> e]

\* resolve(ip) of a promise in state p: only a pending promise changes
Resolve(p, ip) == IF p.state = "pending" THEN Fulfilled(ip) ELSE p

\* reject(e) of a promise in state p: only a pending promise changes
Reject(p, e) == IF p.state = "pending" THEN Rejected(e) ELSE p

(* ------------------------------- state -------------------------------- *)

VARIABLES
    ops,       \* ops[1]: the call made last on the session (its locals and position);
               \* ops[2]: what is left of the calls made before it
    handlers,  \* the callbacks the session dispatches to, by the id of the call
    newest,    \* the call that registered a handler last (0: none)
    last,      \* the delivery the last step made (NoDelivery when it made none)
    kill,      \* the one killProcess call
    deps       \* the dependency store and the getFridaServer calls

vars == <<ops, handlers, newest, last, kill, deps>>

\* a call that has not been made
Idle ==
    [kind |-> "none", pc |-> "idle",
     ips |-> <<>>, proxyPort |-> 0, targetName |-> "",
     promise |-> Pending,      \* the promise the call builds with new Promise
     result |-> Pending,       \* the promise the call returns
     load |-> "none",          \* the loadScript() request: none, pending, resolved, rejected
     reacted |-> FALSE,        \* launchScript: .then(resolve).catch(reject) has run
     scriptLoaded |-> FALSE,   \* launchScript: let scriptLoaded
     preLoadError |-> FALSE,   \* launchScript: its handler was given an 'error'
                               \* message while the load request was pending
     built |-> FALSE,          \* buildIpTestScript was called
     older |-> "none",         \* (of call 2) the scripts of the calls before it:
                               \* none, pending (still to be created), live
     timer |-> -1,             \* withTimeout's delay: ms left, -1 when not running
     buildMs |-> 0,            \* ms spent in buildIpTestScript (up to MaxBuildMs)
     waited |-> 0]             \* ms spent in withTimeout until the call settled

\* no message delivered yet.  to: the calls whose handlers ran; newestWas: the
\* newest registration then; effect, line: what the last of those handlers did
\* and printed; ...Was: the state of that handler's call when the message came
NoDelivery ==
    [to |-> <<>>, newestWas |-> 0, from |-> 0, msg |-> NoMessage,
     effect |-> "none", line |-> <<>>, loadWas |-> "none", reactedWas |-> FALSE,
     promiseWas |-> "pending", resultWas |-> "pending", loadedWas |-> FALSE]

\* killProcess not called yet
KillIdle ==
    [pc |-> "idle",
     resume |-> "none",     \* session.resume(): none, pending, resolved, rejected
     kill |-> "none",       \* session.kill(): none, pending, resolved, rejected
     kills |-> 0,           \* how many times session.kill() was called
     result |-> "pending",  \* the promise killProcess returns
     timer |-> -1,          \* delay(100): ms left, -1 when not running
     sinceResume |-> 0,     \* ms from the call of resume() to the call of kill()
     grace |-> 0]           \* ms from the end of resume() to the call of kill()

SessionInit ==
    /\ ops = [i \in OpIds |-> Idle]
    /\ handlers = <<>>
    /\ newest = 0
    /\ last = NoDelivery

Settled(i) == ops[i].result.state # "pending"

\* onMessage as a list of listeners: the earlier callbacks stay registered
OnMessageAdds(hs, h) == Append(hs, h)

\* session.onMessage(callback): "only one session monitor can be active at any
\* time, so this will replace any existing session message monitoring"
OnMessage(hs, h) == <<h>>

(* --------------------- testAndSelectProxyAddress ---------------------- *)

\* ips: the interface addresses, then the extra addresses if there are any
CandidateIps(interfaceAddresses, extra) ==
    interfaceAddresses
        \o (IF extra.present /\ Len(extra.addrs) # 0 THEN extra.addrs ELSE <<>>)

\* the .catch((e) => ...) after withTimeout
CatchHandler(e, ipList, port) ==
    IF IsFridaProxyError(e) THEN e
    ELSE FridaProxyError(DetectionFailedText(ipList, port), e)

\* a race nothing closes: the call's outcome follows whatever the inner promise
\* becomes, also after the call has settled
RaceInnerUnguarded(o, p) ==
    IF p.state = "fulfilled" THEN p
    ELSE IF p.state = "rejected" THEN Rejected(CatchHandler(p.err, o.ips, o.proxyPort))
    ELSE o.result

\* withTimeout + .catch: what the call returns once the inner promise is p,
\* unless it has settled already
RaceInner(o, p) ==
    IF o.result.state # "pending" THEN o.result
    ELSE IF p.state = "fulfilled" THEN p
    ELSE IF p.state = "rejected" THEN Rejected(CatchHandler(p.err, o.ips, o.proxyPort))
    ELSE o.result

\* withTimeout + .catch: what the call returns once the delay has run out
RaceTimeout(o) ==
    IF o.result.state # "pending" THEN o.result
    ELSE Rejected(CatchHandler(TimeoutError, o.ips, o.proxyPort))

\* the inner promise of call o becomes p: the race and the catch follow at once
WithInner(o, p) == [o EXCEPT !.promise = p, !.result = RaceInner(o, p)]

\* the call without the check of ips.length
NegStartUnchecked(o, interfaceAddresses, extra, port) ==
    [o EXCEPT !.kind = "negotiate", !.pc = "building",
              !.ips = CandidateIps(interfaceAddresses, extra),
              !.proxyPort = port, !.built = TRUE]

\* lines 116-125: the call, up to the empty check
NegStart(o, interfaceAddresses, extra, port) ==
    LET ipList == CandidateIps(interfaceAddresses, extra) IN
    IF Len(ipList) = 0
    THEN [o EXCEPT !.kind = "negotiate", !.pc = "done", !.ips = ipList,
                   !.proxyPort = port,
                   !.result = Rejected(FridaProxyError(
                       <<"No local IPs detected for proxy connection">>, <<>>))]
    ELSE [o EXCEPT !.kind = "negotiate", !.pc = "building", !.ips = ipList,
                   !.proxyPort = port, !.built = TRUE]

\* The caller makes its calls on a session one after the other: a call is made
\* once the call before it has returned.  What the earlier calls left running
\* (their requests, scripts and handlers) goes on.
MayStart == ops[1].pc = "idle" \/ Settled(1)

\* a promise nothing reads any more
Dead == [state |-> "dead", ip |-> "", err |-> <<>>]

\* What is left of a call that has returned, once the caller goes on to its next
\* call: its script (load: left running, or none when there is none or its load
\* request was rejected), the createScript request of
\* a negotiation that timed out before it was answered (pc creating), and what
\* its handler reads (scriptLoaded, targetName).  Its promises are read by
\* nobody, its candidate list only went into the errors of those promises, and
\* its clocks were read when it returned: they are dropped.
Returned(o) ==
    [Idle EXCEPT !.kind = o.kind,
                 !.pc = IF o.kind = "negotiate" /\ o.pc = "creating"
                        THEN "creating" ELSE "left",
                 !.load = IF o.load \in {"pending", "resolved"} THEN "left"
                          ELSE "none",
                 !.scriptLoaded = o.scriptLoaded,
                 !.targetName = o.targetName,
                 !.promise = Dead, !.result = Dead]

\* What is left of call o once its handler is replaced: nothing reads
\* scriptLoaded and targetName any more.
Replaced(o) == [o EXCEPT !.scriptLoaded = FALSE, !.targetName = ""]

\* the scripts of call o and of the calls before it, for the call after o
Older(o) ==
    IF o.older = "live" \/ o.load # "none" THEN "live"
    ELSE IF o.older = "pending" \/ o.pc = "creating" THEN "pending"
    ELSE "none"

\* call 1 has registered a handler
Registered == \E k \in DOMAIN handlers : handlers[k] = 1

\* What is left of the earlier calls when the next call is made.  A call that
\* registered no handler left nothing: it made no request that is pending and
\* loaded no script.  A call that registered one replaced the handler of the
\* calls before it, of which only the scripts are left.
Left == IF Registered THEN [Returned(ops[1]) EXCEPT !.older = Older(ops[2])]
        ELSE ops[2]

\* the session's handlers when the next call is made: call 1 becomes call 2
RECURSIVE Shift(_)
Shift(hs) ==
    IF Len(hs) = 0 THEN <<>>
    ELSE (IF hs[1] = 1 THEN <<2>> ELSE <<>>) \o Shift(Tail(hs))

LeftHandlers == IF Registered THEN Shift(handlers) ELSE handlers

\* the calls when the next call is made as c
Started(c) == [j \in OpIds |-> IF j = 1 THEN c ELSE Left]

NegCall ==
    /\ MayStart
    /\ \E interfaceAddresses \in InterfaceAddresses, extra \in ExtraAddresses,
          port \in ProxyPorts :
          ops' = Started(NegStart(Idle, interfaceAddresses, extra, port))
    /\ handlers' = LeftHandlers
    /\ newest' = IF Registered THEN 2 ELSE newest
    /\ last' = NoDelivery
    /\ UNCHANGED <<kill, deps>>

\* the promise awaited as it is, without withTimeout
NegArmWithoutTimeout(o) == [o EXCEPT !.pc = "creating"]

\* line 129-153: withTimeout starts its delay, the executor registers the handler
\* and asks for the script
NegArm(o) == [o EXCEPT !.pc = "creating", !.timer = PROXY_TEST_TIMEOUT_MS]

\* line 127: buildIpTestScript resolves
NegBuildOk ==
    /\ ops[1].kind = "negotiate" /\ ops[1].pc = "building"
    /\ ops' = [ops EXCEPT ![1] = NegArm(@), ![2] = Replaced(@)]
    /\ handlers' = OnMessage(handlers, 1)
    /\ newest' = 1
    /\ last' = NoDelivery
    /\ UNCHANGED <<kill, deps>>

\* line 127: buildIpTestScript rejects, outside withTimeout and its catch
NegBuildFail ==
    /\ ops[1].kind = "negotiate" /\ ops[1].pc = "building"
    /\ ops' = [ops EXCEPT ![1].pc = "done", ![1].result = Rejected(BuildError)]
    /\ last' = NoDelivery
    /\ UNCHANGED <<handlers, newest, kill, deps>>

\* line 153: createScript resolves and loadScript is called
NegCreateOk ==
    /\ ops[1].kind = "negotiate" /\ ops[1].pc = "creating"
    /\ ops' = [ops EXCEPT ![1].pc = "loading", ![1].load = "pending"]
    /\ last' = NoDelivery
    /\ UNCHANGED <<handlers, newest, kill, deps>>

\* line 153-155: createScript rejects, the catch block rejects the promise
NegCreateFail ==
    /\ ops[1].kind = "negotiate" /\ ops[1].pc = "creating"
    /\ ops' = [ops EXCEPT ![1] =
                  WithInner([@ EXCEPT !.pc = "waiting"],
                            Reject(@.promise, CreateScriptError))]
    /\ last' = NoDelivery
    /\ UNCHANGED <<handlers, newest, kill, deps>>

\* line 153: loadScript resolves, the executor ends
NegLoadOk ==
    /\ ops[1].kind = "negotiate" /\ ops[1].pc = "loading"
    /\ ops' = [ops EXCEPT ![1].pc = "waiting", ![1].load = "resolved"]
    /\ last' = NoDelivery
    /\ UNCHANGED <<handlers, newest, kill, deps>>

\* line 153-155: loadScript rejects, the catch block rejects the promise
NegLoadFail ==
    /\ ops[1].kind = "negotiate" /\ ops[1].pc = "loading"
    /\ ops' = [ops EXCEPT ![1] =
                  WithInner([@ EXCEPT !.pc = "waiting", !.load = "rejected"],
                            Reject(@.promise, LoadScriptError))]
    /\ last' = NoDelivery
    /\ UNCHANGED <<handlers, newest, kill, deps>>

\* withTimeout's delay runs out
NegTimeout ==
    /\ ops[1].kind = "negotiate" /\ ops[1].timer = 0 /\ ~Settled(1)
    /\ ops' = [ops EXCEPT ![1].timer = -1, ![1].result = RaceTimeout(ops[1])]
    /\ last' = NoDelivery
    /\ UNCHANGED <<handlers, newest, kill, deps>>

\* a handler that answers 'connected' with the first candidate, whatever the
\* message says
NegHandlerFirstCandidate(o, m) ==
    IF m.type = "send" /\ m.payload = "connected" THEN Resolve(o.promise, o.ips[1])
    ELSE IF m.type = "send" \/ m.type = "error"
    THEN Reject(o.promise, PlainError(<<"Unexpected message type: ", m.payload>>))
    ELSE o.promise

\* lines 131-151: the handler of call o is given message m
NegHandler(o, m) ==
    IF m.type = "send" THEN
        IF m.payload = "connected" THEN Resolve(o.promise, m.ip)
        ELSE IF m.payload = "connection-failed"
        THEN Reject(o.promise,
                    FridaProxyError(ConnectionFailedText(o.ips, o.proxyPort), <<>>))
        ELSE Reject(o.promise, PlainError(<<"Unexpected message type: ", m.payload>>))
    ELSE IF m.type = "error"
    THEN Reject(o.promise,
                CustomError(<<"Error in Frida IP test script: ", m.description>>,
                            "frida-ip-test-script-error", FridaScriptError(m)))
    ELSE o.promise

(* ---------------------------- launchScript ---------------------------- *)

\* line 175: the call; createScript is awaited first
LaunchCall ==
    /\ MayStart
    /\ \E name \in TargetNames :
          ops' = Started([Idle EXCEPT !.kind = "launch", !.pc = "creating",
                                      !.targetName = name])
    /\ handlers' = LeftHandlers
    /\ newest' = IF Registered THEN 2 ELSE newest
    /\ last' = NoDelivery
    /\ UNCHANGED <<kill, deps>>

\* createScript resolves and loadScript is called with no handler registered
LaunchCreateOkUnregistered ==
    /\ ops[1].kind = "launch" /\ ops[1].pc = "creating"
    /\ ops' = [ops EXCEPT ![1].pc = "awaiting", ![1].load = "pending"]
    /\ last' = NoDelivery
    /\ UNCHANGED <<handlers, newest, kill, deps>>

\* lines 175-202: createScript resolves; the executor registers the handler and
\* calls loadScript; the call awaits the promise
LaunchCreateOk ==
    /\ ops[1].kind = "launch" /\ ops[1].pc = "creating"
    /\ ops' = [ops EXCEPT ![1].pc = "awaiting", ![1].load = "pending",
                           ![2] = Replaced(@)]
    /\ handlers' = OnMessage(handlers, 1)
    /\ newest' = 1
    /\ last' = NoDelivery
    /\ UNCHANGED <<kill, deps>>

\* line 175: createScript rejects and launchScript throws
LaunchCreateFail ==
    /\ ops[1].kind = "launch" /\ ops[1].pc = "creating"
    /\ ops' = [ops EXCEPT ![1].pc = "done", ![1].result = Rejected(CreateScriptError)]
    /\ last' = NoDelivery
    /\ UNCHANGED <<handlers, newest, kill, deps>>

\* line 199: the load request resolves
LaunchLoadResolve ==
    /\ ops[1].kind = "launch" /\ ops[1].load = "pending"
    /\ ops' = [ops EXCEPT ![1].load = "resolved"]
    /\ last' = NoDelivery
    /\ UNCHANGED <<handlers, newest, kill, deps>>

\* line 199: the load request rejects
LaunchLoadReject ==
    /\ ops[1].kind = "launch" /\ ops[1].load = "pending"
    /\ ops' = [ops EXCEPT ![1].load = "rejected"]
    /\ last' = NoDelivery
    /\ UNCHANGED <<handlers, newest, kill, deps>>

\* .then(resolve, resolve): the promise is kept whatever the load request did
LoadReactionResolves(o) ==
    [o EXCEPT !.reacted = TRUE, !.promise = Resolve(o.promise, "")]

\* lines 200-201: .then(resolve).catch(reject) on the settled load request
LoadReaction(o) ==
    [o EXCEPT !.reacted = TRUE,
              !.promise = IF o.load = "resolved" THEN Resolve(o.promise, "")
                          ELSE Reject(o.promise, LoadScriptError)]

LaunchLoadThen ==
    /\ ops[1].kind = "launch" /\ ops[1].load \in {"resolved", "rejected"}
    /\ ~ops[1].reacted
    /\ ops' = [ops EXCEPT ![1] = LoadReaction(@)]
    /\ last' = NoDelivery
    /\ UNCHANGED <<handlers, newest, kill, deps>>

\* lines 178, 204: the await ends; scriptLoaded = true when the promise was kept
AwaitEnd(o) ==
    IF o.promise.state = "fulfilled"
    THEN [o EXCEPT !.pc = "done", !.scriptLoaded = TRUE, !.result = Fulfilled("")]
    ELSE [o EXCEPT !.pc = "done", !.result = Rejected(o.promise.err)]

LaunchResume ==
    /\ ops[1].kind = "launch" /\ ops[1].pc = "awaiting"
    /\ ops[1].promise.state # "pending"
    /\ ops' = [ops EXCEPT ![1] = AwaitEnd(@)]
    /\ last' = NoDelivery
    /\ UNCHANGED <<handlers, newest, kill, deps>>

\* `Failed to run Frida script on ${targetName}: ${message.description}`
LaunchFailedText(name, m) ==
    <<"Failed to run Frida script on ", name, ": ", m.description>>

\* the handler with the test of scriptLoaded the wrong way round
LaunchHandlerInverted(o, m) ==
    IF m.type = "error" /\ o.scriptLoaded
    THEN Reject(o.promise,
                CustomError(LaunchFailedText(o.targetName, m), "frida-script-error",
                            FridaScriptError(m)))
    ELSE o.promise

\* lines 179-197: the handler of call o is given message m: the promise after it
LaunchHandler(o, m) ==
    IF m.type = "error" /\ ~o.scriptLoaded
    THEN Reject(o.promise,
                CustomError(LaunchFailedText(o.targetName, m), "frida-script-error",
                            FridaScriptError(m)))
    ELSE o.promise

\* lines 179-197: what the handler of call o does with message m
LaunchEffect(o, m) ==
    IF m.type = "error" THEN (IF ~o.scriptLoaded THEN "reject" ELSE "warn")
    ELSE IF m.type = "log" THEN (IF Trim(m.text) = <<>> THEN "discard" ELSE "log")
    ELSE "log"

\* lines 189-195: what the handler of call o prints for message m
LaunchLine(o, m) ==
    IF m.type = "error"
    THEN (IF ~o.scriptLoaded THEN <<>>
          ELSE <<"Frida ", o.targetName, " injection error:", m.description>>)
    ELSE IF m.type = "log"
    THEN (IF Trim(m.text) = <<>> THEN <<>>
          ELSE <<"Frida ", o.targetName, " [", m.level, "]: ">> \o m.text)
    ELSE <<m.type, m.payload, m.ip>>

(* -------------------------- message delivery -------------------------- *)

\* lines 131-151: what the negotiation's handler does with message m
NegEffect(o, m) ==
    IF m.type = "send" THEN (IF m.payload = "connected" THEN "resolve" ELSE "reject")
    ELSE IF m.type = "error" THEN "reject"
    ELSE "none"

\* call o after its handler was given m
Handle(o, m) ==
    IF o.kind = "negotiate" THEN WithInner(o, NegHandler(o, m))
    ELSE [o EXCEPT !.promise = LaunchHandler(o, m),
                   !.preLoadError = @ \/ (m.type = "error" /\ o.load = "pending")]

RECURSIVE Dispatch(_, _, _)
\* the calls after every handler of hs was given m, in order
Dispatch(f, hs, m) ==
    IF Len(hs) = 0 THEN f
    ELSE Dispatch([f EXCEPT ![hs[1]] = Handle(@, m)], Tail(hs), m)

\* the record of a delivery of m, sent by the script of call src
Delivery(m, src) ==
    LET o == ops[handlers[Len(handlers)]] IN
    [to |-> handlers, newestWas |-> newest, from |-> src,
     msg |-> m,
     effect |-> IF o.kind = "negotiate" THEN NegEffect(o, m) ELSE LaunchEffect(o, m),
     line |-> IF o.kind = "negotiate" THEN <<>> ELSE LaunchLine(o, m),
     loadWas |-> o.load, reactedWas |-> o.reacted, promiseWas |-> o.promise.state,
     resultWas |-> o.result.state, loadedWas |-> o.scriptLoaded]

\* line 153, for call 2: createScript resolves and loadScript is called; what
\* the load request does is read by nobody
LeftCreateOk ==
    /\ ops[2].pc = "creating"
    /\ ops' = [ops EXCEPT ![2].pc = "left", ![2].load = "left"]
    /\ last' = NoDelivery
    /\ UNCHANGED <<handlers, newest, kill, deps>>

\* line 153-155, for call 2: createScript rejects
LeftCreateFail ==
    /\ ops[2].pc = "creating"
    /\ ops' = [ops EXCEPT ![2].pc = "left"]
    /\ last' = NoDelivery
    /\ UNCHANGED <<handlers, newest, kill, deps>>

\* the scripts of the calls before call 2: one is created, or none is
OlderCreateOk ==
    /\ ops[2].older = "pending"
    /\ ops' = [ops EXCEPT ![2].older = "live"]
    /\ last' = NoDelivery
    /\ UNCHANGED <<handlers, newest, kill, deps>>

OlderCreateFail ==
    /\ ops[2].older = "pending"
    /\ ops' = [ops EXCEPT ![2].older = "none"]
    /\ last' = NoDelivery
    /\ UNCHANGED <<handlers, newest, kill, deps>>

\* the scripts that run (a script whose load request was rejected does not):
\* of call 1, of call 2, of the calls before (0)
Sources == {0} \cup OpIds
Runs(src) ==
    IF src = 0 THEN ops[2].older = "live"
    ELSE ops[src].load \in {"pending", "resolved", "left"}

\* the session delivers message m of a script that runs
Deliver(m, src) ==
    /\ Runs(src)
    /\ Len(handlers) > 0
    /\ ops' = Dispatch(ops, handlers, m)
    /\ last' = Delivery(m, src)
    /\ UNCHANGED <<handlers, newest, kill, deps>>

(* -------------------------------- time -------------------------------- *)

\* the negotiations whose delay is running and decides something
Racing == {i \in OpIds : ops[i].kind = "negotiate" /\ ops[i].timer >= 0 /\ ~Settled(i)}

RECURSIVE MinOf(_)
MinOf(S) ==
    LET x == CHOOSE y \in S : TRUE IN
    IF S = {x} THEN x ELSE Min(x, MinOf(S \ {x}))

\* time cannot pass the end of a running delay: the delay's callback runs first
Step(d) == IF Racing = {} THEN d ELSE Min(d, MinOf({ops[i].timer : i \in Racing}))

\* call o after d more ms
Later(o, d) ==
    IF o.kind # "negotiate" \/ o.result.state # "pending" THEN o
    ELSE IF o.pc = "building" THEN [o EXCEPT !.buildMs = Min(@ + d, MaxBuildMs)]
    ELSE [o EXCEPT !.waited = Min(@ + d, MaxWaitMs),
                   !.timer = IF @ >= 0 THEN @ - d ELSE @]

Tick(d) ==
    /\ Step(d) > 0
    /\ ops' = [i \in OpIds |-> Later(ops[i], Step(d))]
    /\ ops' # ops
    /\ last' = NoDelivery
    /\ UNCHANGED <<handlers, newest, kill, deps>>

(* ---------------------------- killProcess ----------------------------- *)

\* line 104: session.resume() is called
KillCall ==
    /\ kill.pc = "idle"
    /\ kill' = [kill EXCEPT !.pc = "resuming", !.resume = "pending"]
    /\ UNCHANGED <<ops, handlers, newest, last, deps>>

\* line 105: resume() resolves, .then(() => delay(100)) starts the delay
KillResumeOk ==
    /\ kill.pc = "resuming"
    /\ kill' = [kill EXCEPT !.pc = "delaying", !.resume = "resolved",
                            !.timer = KILL_GRACE_MS]
    /\ UNCHANGED <<ops, handlers, newest, last, deps>>

\* line 108: session.kill() is called
CallKill(k) == [k EXCEPT !.pc = "killing", !.kill = "pending", !.kills = @ + 1]

\* resume() rejects and nothing swallows the rejection: killProcess throws
KillResumeFailThrows ==
    /\ kill.pc = "resuming"
    /\ kill' = [kill EXCEPT !.pc = "done", !.resume = "rejected", !.result = "rejected"]
    /\ UNCHANGED <<ops, handlers, newest, last, deps>>

\* lines 104-108: resume() rejects: .then is skipped, .catch(() => {}) swallows
\* the rejection and the await ends
KillResumeFail ==
    /\ kill.pc = "resuming"
    /\ kill' = CallKill([kill EXCEPT !.resume = "rejected"])
    /\ UNCHANGED <<ops, handlers, newest, last, deps>>

\* lines 105-108: the delay ends, the await ends
KillDelayEnd ==
    /\ kill.pc = "delaying" /\ kill.timer = 0
    /\ kill' = CallKill([kill EXCEPT !.timer = -1])
    /\ UNCHANGED <<ops, handlers, newest, last, deps>>

\* line 108: kill() resolves
KillOk ==
    /\ kill.pc = "killing"
    /\ kill' = [kill EXCEPT !.pc = "done", !.kill = "resolved", !.result = "fulfilled"]
    /\ UNCHANGED <<ops, handlers, newest, last, deps>>

\* line 108: kill() rejects, and so does killProcess
KillFail ==
    /\ kill.pc = "killing"
    /\ kill' = [kill EXCEPT !.pc = "done", !.kill = "rejected", !.result = "rejected"]
    /\ UNCHANGED <<ops, handlers, newest, last, deps>>

\* the amounts of time one step of the clock may take while killProcess runs
KillTickSteps == {25, 100}

\* time passes between the call of resume() and the call of kill()
KillTick(d) ==
    /\ kill.pc \in {"resuming", "delaying"}
    /\ LET step == IF kill.timer >= 0 THEN Min(d, kill.timer) ELSE d IN
       /\ step > 0
       /\ kill' = [kill EXCEPT !.sinceResume = Min(@ + step, MaxKillMs),
                               !.grace = IF kill.pc = "delaying" THEN @ + step ELSE @,
                               !.timer = IF @ >= 0 THEN @ - step ELSE @]
    /\ kill' # kill
    /\ UNCHANGED <<ops, handlers, newest, last, deps>>

(* --------------------------- getFridaServer --------------------------- *)

\* export const FRIDA_VERSION
FRIDA_VERSION == "16.6.1"

\* FRIDA_SRIS (the hashes cut after eight characters)
FRIDA_SRIS ==
    [android |-> [arm    |-> "sha512-bLIDVOMw",
                  arm64  |-> "sha512-kPcOEHSc",
                  x86    |-> "sha512-89IwpL5k",
                  x86_64 |-> "sha512-KBBj09sc"]]

\* arch: 'arm' | 'arm64' | 'x86' | 'x86_64'
Archs == {"arm", "arm64", "x86", "x86_64"}

\* key: ['frida-server', platform, arch, FRIDA_VERSION]
DependencyKey(platform, arch) == <<"frida-server", platform, arch, FRIDA_VERSION>>

Keys == {DependencyKey("android", a) : a \in Archs}

\* ([, platform, arch, version]) => FridaJs.downloadFridaServer({...}) with the
\* hash of some fixed architecture
FetchWithArmSri(key) ==
    [version |-> key[4], platform |-> key[2], arch |-> key[3],
     sri |-> FRIDA_SRIS.android.arm]

\* fetch: ([, platform, arch, version]) => FridaJs.downloadFridaServer({...}):
\* the download the store asks for when it misses key
Fetch(key) ==
    [version |-> key[4], platform |-> key[2], arch |-> key[3],
     sri |-> FRIDA_SRIS.android[key[3]]]

\* the hash of what the transport delivers: the binary of some architecture, or
\* something else
Hashes == {FRIDA_SRIS.android[a] : a \in Archs} \cup {"sha512-tampered"}

NoFetch == [version |-> "", platform |-> "", arch |-> "", sri |-> ""]

\* a getFridaServer call that has not been made.  found: what the store held
\* for the key when the call was made; got: the hash of what the fetch the call
\* waited for delivered
NoRequest ==
    [pc |-> "idle", key |-> <<>>, found |-> "", started |-> FALSE,
     got |-> "", result |-> "none"]

RequestIds == 1..MaxRequests

\* cache: the hash of the artifact cached under each key; fetch: the download
\* in flight for each key; fetched, failed: the downloads started and failed
DepsInit ==
    [cache |-> [k \in Keys |-> "none"],
     fetch |-> [k \in Keys |-> NoFetch],
     fetched |-> [k \in Keys |-> 0],
     failed |-> [k \in Keys |-> 0],
     reqs |-> [r \in RequestIds |-> NoRequest]]

\* a store that never joins a fetch in flight
InFlightIgnored(d, key) == FALSE

\* a fetch for key is in flight
InFlight(d, key) == d.fetch[key] # NoFetch

\* dynamicDeps.getDependencyStream({ config, key, ext, fetch }) for call r:
\* serve the cached artifact, or join the fetch in flight, or fetch
GetDependencyStream(d, r, key) ==
    IF d.cache[key] # "none"
    THEN [d EXCEPT !.reqs[r] = [NoRequest EXCEPT !.pc = "done", !.key = key,
                                                 !.found = "cached",
                                                 !.result = d.cache[key]]]
    ELSE IF InFlight(d, key)
    THEN [d EXCEPT !.reqs[r] = [NoRequest EXCEPT !.pc = "waiting", !.key = key,
                                                 !.found = "fetching"]]
    ELSE [d EXCEPT !.reqs[r] = [NoRequest EXCEPT !.pc = "waiting", !.key = key,
                                                 !.found = "absent",
                                                 !.started = TRUE],
                   !.fetch[key] = Fetch(key),
                   !.fetched[key] = @ + 1]

\* lines 51-69: getFridaServer(config, 'android', arch)
GetFridaServer(r, arch) ==
    /\ deps.reqs[r].pc = "idle"
    /\ \A q \in RequestIds : q < r => deps.reqs[q].pc # "idle"
    /\ deps' = GetDependencyStream(deps, r, DependencyKey("android", arch))
    /\ UNCHANGED <<ops, handlers, newest, last, kill>>

\* the calls that wait for the fetch of key
Waiting(d, key) == {r \in RequestIds : d.reqs[r].pc = "waiting" /\ d.reqs[r].key = key}

\* the fetch of key has ended and delivered hash (or "" when it delivered
\* nothing): its calls get result
Fetched(d, key, hash, result) ==
    [d EXCEPT !.fetch[key] = NoFetch,
              !.reqs = [r \in RequestIds |->
                           IF r \in Waiting(d, key)
                           THEN [d.reqs[r] EXCEPT !.pc = "done", !.got = hash,
                                                  !.result = result]
                           ELSE d.reqs[r]]]

\* the download delivers an artifact with this hash: it is checked against the
\* sri the fetch was given, cached and returned when it matches, and neither
\* when it does not
DownloadEnds(key, hash) ==
    /\ InFlight(deps, key)
    /\ deps' = IF hash = deps.fetch[key].sri
               THEN [Fetched(deps, key, hash, hash) EXCEPT !.cache[key] = hash]
               ELSE [Fetched(deps, key, hash, "integrity-failure")
                         EXCEPT !.failed[key] = @ + 1]
    /\ UNCHANGED <<ops, handlers, newest, last, kill>>

\* the download fails
DownloadFails(key) ==
    /\ InFlight(deps, key)
    /\ deps' = [Fetched(deps, key, "", "fetch-failure") EXCEPT !.failed[key] = @ + 1]
    /\ UNCHANGED <<ops, handlers, newest, last, kill>>

(* --------------------------- specifications --------------------------- *)

Init == SessionInit /\ kill = KillIdle /\ deps = DepsInit

Next ==
    \/ NegCall
    \/ NegBuildOk
    \/ NegBuildFail
    \/ NegCreateOk
    \/ NegCreateFail
    \/ NegLoadOk
    \/ NegLoadFail
    \/ NegTimeout
    \/ LaunchCall
    \/ LaunchCreateOk
    \/ LaunchCreateFail
    \/ LaunchLoadResolve
    \/ LaunchLoadReject
    \/ LaunchLoadThen
    \/ LaunchResume
    \/ LeftCreateOk
    \/ LeftCreateFail
    \/ OlderCreateOk
    \/ OlderCreateFail
    \/ \E m \in Messages, src \in Sources : Deliver(m, src)
    \/ \E d \in TickSteps : Tick(d)

\* the calls made on one session, one after the other
Spec == Init /\ [][Next]_vars

KillNext ==
    \/ KillCall
    \/ KillResumeOk
    \/ KillResumeFail
    \/ KillDelayEnd
    \/ KillOk
    \/ KillFail
    \/ \E d \in KillTickSteps : KillTick(d)

DepsNext ==
    \/ \E r \in RequestIds, arch \in Archs : GetFridaServer(r, arch)
    \/ \E key \in Keys, hash \in Hashes : DownloadEnds(key, hash)
    \/ \E key \in Keys : DownloadFails(key)

\* the getFridaServer calls of one process
DepsSpec == Init /\ [][DepsNext]_vars

\* one call of killProcess
KillSpec == Init /\ [][KillNext]_vars

\* one call (the first) on a fresh session
CallNext ==
    \/ (ops[1].pc = "idle" /\ NegCall)
    \/ NegBuildOk
    \/ NegBuildFail
    \/ NegCreateOk
    \/ NegCreateFail
    \/ NegLoadOk
    \/ NegLoadFail
    \/ NegTimeout
    \/ (ops[1].pc = "idle" /\ LaunchCall)
    \/ LaunchCreateOk
    \/ LaunchCreateFail
    \/ LaunchLoadResolve
    \/ LaunchLoadReject
    \/ LaunchLoadThen
    \/ LaunchResume
    \/ \E m \in Messages : Deliver(m, 1)
    \/ \E d \in TickSteps : Tick(d)

CallSpec == Init /\ [][CallNext]_vars

\* time passes, and a delay that has run out calls back
FairCallSpec ==
    /\ CallSpec
    /\ WF_vars(\E d \in TickSteps : Tick(d))
    /\ WF_vars(NegTimeout)

(* ------------------------------ properties ---------------------------- *)

\* the calls whose locals the model still holds (see Returned)
Negotiations == {i \in OpIds : ops[i].kind = "negotiate" /\ ops[i].promise.state # "dead"}
Launches == {i \in OpIds : ops[i].kind = "launch" /\ ops[i].promise.state # "dead"}

Failed(i) == ops[i].result.state = "rejected"

\* the text names address a (as it is, or as JSON writes it)
Mentions(text, a) == \E k \in DOMAIN text : text[k] \in {a, "\"" \o a \o "\""}

ListsEvery(text, ipList) == \A k \in DOMAIN ipList : Mentions(text, ipList[k])

ProxyLayers(e) == Cardinality({k \in DOMAIN e : e[k].cls = "FridaProxyError"})

\* C1: every failure of testAndSelectProxyAddress reaches the caller as one
\* FridaProxyError: either the FridaProxyError that was raised, unchanged, or a
\* FridaProxyError whose cause is the original error (the inner promise's
\* rejection, or the timeout).
C1_EveryFailureIsProxyError ==
    \A i \in Negotiations :
        Failed(i) =>
            /\ IsFridaProxyError(ops[i].result.err)
            /\ ProxyLayers(ops[i].result.err) = 1
            /\ \/ Len(ops[i].result.err) = 1
               \/ Tail(ops[i].result.err) \in {ops[i].promise.err, TimeoutError}

\* the probe script of call i is loaded and its handler was given no 'send' or
\* 'error' message (each of them settles the inner promise)
Silent(i) ==
    /\ ops[i].kind = "negotiate" /\ ops[i].load = "resolved"
    /\ ops[i].promise.state = "pending"

\* call i failed with a FridaProxyError caused by the timeout, naming every candidate
TimedOut(i) ==
    /\ Failed(i)
    /\ IsFridaProxyError(ops[i].result.err)
    /\ Tail(ops[i].result.err) = TimeoutError
    /\ ListsEvery(ops[i].result.err[1].text, ops[i].ips)

\* C2: a negotiation whose probe script is loaded and whose handler is never
\* given a 'send' or 'error' message does not stay pending: it fails with a
\* FridaProxyError whose cause is the timeout and whose message lists every
\* candidate address.
C2_SilentProbeTimesOut ==
    \A i \in OpIds : Silent(i) ~> (TimedOut(i) \/ ~Silent(i))

C2_Witness ==
    /\ Silent(1) /\ TimedOut(1) /\ Len(ops[1].ips) > 1

\* C3 as claimed: the call has settled no later than 2000 ms after it was made,
\* the time buildIpTestScript takes included.
C3_SettledWithin2000msOfTheCall ==
    \A i \in Negotiations : ops[i].buildMs + ops[i].waited <= 2000

\* C3, amended: the 2000 ms are counted from the moment the probe script is
\* built and withTimeout is entered: a call that got there has settled no later
\* than 2000 ms after that moment, and when nothing else has settled it by then
\* it fails with the timeout.  The time buildIpTestScript takes is not counted.
C3_SettledWithin2000msOfTheWait ==
    \A i \in Negotiations :
        /\ ops[i].waited <= 2000
        /\ (ops[i].waited = 2000 /\ ~Settled(i)) => ENABLED NegTimeout

C3_Witness ==
    /\ 1 \in Negotiations /\ TimedOut(1)
    /\ ops[1].waited = 2000 /\ ops[1].buildMs > 0

\* C4: whenever killProcess calls kill(), resume() was called before and at
\* least the grace period (100 ms) has passed since resume() settled, whether
\* resume() resolved or rejected.
C4_ResumeThenGraceThenKill ==
    kill.kill # "none" =>
        /\ kill.resume \in {"resolved", "rejected"}
        /\ kill.grace >= 100

\* the error launchScript fails with when its handler is given an 'error'
\* message before the script is loaded: it names the target, its cause is the
\* script error
IsLaunchDiagnostic(e, name) ==
    /\ Len(e) = 2
    /\ e[1].cls = "CustomError" /\ e[1].code = "frida-script-error"
    /\ Mentions(e[1].text, name)
    /\ e[2].cls = "FridaScriptError"
    /\ Mentions(e[1].text, e[2].text[1])

\* C5: once the handler of launchScript was given an 'error' message while the
\* load request was pending, the launch fails with the diagnostic that names the
\* target and has the script error as its cause: the promise is rejected with it,
\* stays rejected when the load request resolves, the call throws it, and
\* scriptLoaded is never set.
C5_PreLoadErrorIsFatal ==
    \A i \in Launches :
        ops[i].preLoadError =>
            /\ ops[i].promise.state = "rejected"
            /\ IsLaunchDiagnostic(ops[i].promise.err, ops[i].targetName)
            /\ ops[i].result.state # "fulfilled"
            /\ ops[i].pc = "done" => ops[i].result = Rejected(ops[i].promise.err)
            /\ ~ops[i].scriptLoaded

\* an error came first, the load request resolved later, and the call has thrown
C5_Witness ==
    /\ 1 \in Launches /\ ops[1].preLoadError
    /\ ops[1].load = "resolved" /\ ops[1].reacted
    /\ ops[1].pc = "done" /\ Failed(1)

\* the last step gave a message of one of these types to the handler of call i
Given(i, types) == last.to = <<i>> /\ last.msg.type \in types

\* C6: an 'error' message given to the handler of launchScript after the load
\* request has resolved is printed as a warning naming the target and leaves
\* the launch a success: the promise is not rejected and the call does not throw.
C6_PostLoadErrorIsWarned ==
    \A i \in Launches :
        (Given(i, {"error"}) /\ last.loadWas = "resolved") =>
            /\ last.effect = "warn"
            /\ Mentions(last.line, ops[i].targetName)
            /\ ops[i].promise.state # "rejected"
            /\ ops[i].result.state # "rejected"

\* C7: the session has at most one handler, the one registered last, and every
\* message is given to that handler only.
C7_OnlyTheNewestHandler ==
    /\ Len(handlers) <= 1
    /\ newest # 0 => handlers = <<newest>>
    /\ Len(last.to) > 0 => last.to = <<last.newestWas>>

\* the script of an earlier call sends a message after the call made last has
\* replaced the handler: the message is given to the handler of the call made last
C7_Witness ==
    /\ last.to = <<1>> /\ last.from = 2
    /\ ops[2].kind # "none"

\* C8: once testAndSelectProxyAddress has settled, no later step (message, load
\* completion, timeout) changes what it returned or threw.
C8_ResultIsFinal ==
    [][(1 \in Negotiations /\ Settled(1) /\ ~(NegCall \/ LaunchCall))
          => ops'[1].result = ops[1].result]_vars

\* a 'send' or 'error' message reaches the handler of a call that has settled
C8_Witness ==
    /\ 1 \in Negotiations
    /\ Given(1, {"send", "error"}) /\ last.resultWas # "pending"
    /\ last.promiseWas = "pending"

\* C9: launchScript succeeds only if the load request resolved and no 'error'
\* message came while it was pending; it fails when the load request rejects or
\* an 'error' message comes first; 'log' and 'send' messages leave the promise
\* as it was; and while the load request is pending and no 'error' message has
\* come, the call stays pending.
C9_LaunchOutcome ==
    \A i \in Launches :
        /\ ops[i].result.state = "fulfilled" =>
              ops[i].load = "resolved" /\ ~ops[i].preLoadError
        /\ (ops[i].pc = "done" /\ (ops[i].load = "rejected" \/ ops[i].preLoadError))
              => Failed(i)
        /\ (ops[i].reacted /\ ops[i].load = "rejected") =>
              ops[i].promise.state = "rejected"
        /\ Given(i, {"log", "send"}) => ops[i].promise.state = last.promiseWas
        /\ (ops[i].load = "pending" /\ ~ops[i].preLoadError) =>
              ops[i].promise.state = "pending" /\ ops[i].result.state = "pending"

\* the launch has succeeded and its handler is given a 'send' message
C9_Witness ==
    /\ 1 \in Launches /\ ops[1].result.state = "fulfilled"
    /\ Given(1, {"send"})

\* C10: with no candidate address the call fails at once with a
\* FridaProxyError and nothing else happens: no probe script is built, no
\* handler registered, no script created or loaded, no delay started.
C10_EmptyCandidateSet ==
    \A i \in Negotiations :
        Len(ops[i].ips) = 0 =>
            /\ ops[i].result =
                  Rejected(FridaProxyError(
                      <<"No local IPs detected for proxy connection">>, <<>>))
            /\ ops[i].pc = "done"
            /\ ~ops[i].built
            /\ newest # i /\ \A k \in DOMAIN handlers : handlers[k] # i
            /\ ops[i].load = "none"
            /\ ops[i].timer = -1
            /\ ops[i].buildMs = 0 /\ ops[i].waited = 0
            /\ ops[i].promise = Pending

C10_Witness ==
    /\ 1 \in Negotiations /\ Len(ops[1].ips) = 0 /\ Failed(1)

\* the last step gave message m of this payload to the handler of negotiation i,
\* and nothing had settled that negotiation before
FirstOutcome(i, payload) ==
    /\ i \in Negotiations
    /\ Given(i, {"send"}) /\ last.msg.payload = payload
    /\ last.promiseWas = "pending" /\ last.resultWas = "pending"

\* C11: when the first outcome event of a negotiation is a 'send' message with
\* payload connected{ip}, the call resolves with exactly that ip.
C11_ConnectedResolvesWithItsIp ==
    \A i \in OpIds :
        FirstOutcome(i, "connected") =>
            /\ ops[i].promise = Fulfilled(last.msg.ip)
            /\ ops[i].result = Fulfilled(last.msg.ip)

\* the probe reports an address and the call returns it
C11_Witness ==
    /\ FirstOutcome(1, "connected")
    /\ last.msg.ip = "203.0.113.7" /\ ops[1].result.ip = "203.0.113.7"

\* C12: when the first outcome event of a negotiation is a 'send' message with
\* payload connection-failed, the call fails with a FridaProxyError (raised by
\* the handler, not wrapped) whose message names every candidate address: all
\* interface addresses and all extra addresses, for one candidate and for more.
C12_ConnectionFailedListsEveryCandidate ==
    \A i \in OpIds :
        FirstOutcome(i, "connection-failed") =>
            /\ Failed(i)
            /\ IsFridaProxyError(ops[i].result.err)
            /\ Len(ops[i].result.err) = 1
            /\ ListsEvery(ops[i].result.err[1].text, ops[i].ips)
            /\ Len(ops[i].ips) > 0

\* the probe of a call with an interface address and an extra address reports
\* that none could be reached
C12_Witness ==
    /\ FirstOutcome(1, "connection-failed")
    /\ Len(ops[1].ips) > 1
    /\ Mentions(ops[1].result.err[1].text, ExtraPool[1])

\* the getFridaServer calls that were made
Requests == {r \in RequestIds : deps.reqs[r].pc # "idle"}

\* call r was given a stream of an artifact
Served(r) == deps.reqs[r].pc = "done" /\ deps.reqs[r].result \in Hashes

Expected(key) == FRIDA_SRIS[key[2]][key[3]]

\* C14: integrity fails closed.  The hash a fetch is checked against is the one
\* registered for the architecture of the requested key; an artifact with any
\* other hash is not cached and not returned, and the calls that waited for it
\* end in an integrity failure.
C14_IntegrityFailsClosed ==
    /\ \A k \in Keys :
          /\ deps.cache[k] \in {"none", Expected(k)}
          /\ InFlight(deps, k) => deps.fetch[k].sri = Expected(k)
    /\ \A r \in Requests :
          /\ Served(r) => deps.reqs[r].result = Expected(deps.reqs[r].key)
          /\ (deps.reqs[r].got \in Hashes /\ deps.reqs[r].got # Expected(deps.reqs[r].key))
                => deps.reqs[r].result = "integrity-failure"

\* the arm64 binary is asked for and the (genuine) arm binary is delivered
C14_Witness ==
    /\ deps.reqs[1].key = DependencyKey("android", "arm64")
    /\ deps.reqs[1].got = FRIDA_SRIS.android.arm
    /\ deps.reqs[1].result = "integrity-failure"
    /\ deps.cache[deps.reqs[1].key] = "none"

\* C15: the handler of a call is registered before the load request for its
\* script is made: from the load request on (and until a later call registers
\* its own) the session's handler is the handler of that call, and every message
\* of its script is given to it, never to the handler of an earlier call or to
\* none.
C15_HandlerBeforeLoad ==
    /\ ops[1].load # "none" => (handlers = <<1>> /\ newest = 1)
    /\ (Len(last.to) > 0 /\ last.from = 1) => last.to = <<1>>

\* a call made after another one has its script send a message while the load
\* request is pending
C15_Witness ==
    /\ last.from = 1 /\ last.to = <<1>> /\ last.loadWas = "pending"
    /\ ops[2].kind # "none"

\* C16: killProcess calls kill() once, after resume() has settled, whether
\* resume() resolved or rejected; it ends only after kill() has, and it fails
\* exactly when kill() fails (never because resume() failed).
C16_ResumeSwallowedKillPropagated ==
    /\ kill.kills <= 1
    /\ kill.kill # "none" => (kill.kills = 1 /\ kill.resume \in {"resolved", "rejected"})
    /\ kill.result # "pending" => kill.pc = "done"
    /\ kill.pc = "done" =>
          /\ kill.kills = 1
          /\ kill.result = "rejected" <=> kill.kill = "rejected"
          /\ kill.result = "fulfilled" <=> kill.kill = "resolved"

\* resume() failed, kill() succeeded, and so did killProcess
C16_Witness ==
    /\ kill.pc = "done" /\ kill.resume = "rejected"
    /\ kill.kill = "resolved" /\ kill.result = "fulfilled" /\ kill.kills = 1

\* the payload is empty or holds white space only
Blank(t) == \A k \in DOMAIN t : IsSpace(t[k])

\* the last step gave a 'log' message to the handler of call 1, which left the
\* call's promises as they were
LogLeftOutcome ==
    /\ ops[1].promise.state = last.promiseWas
    /\ ops[1].result.state = last.resultWas

\* the line printed for the last message is the leveled line tagged with label
LeveledLine(label) ==
    /\ Len(last.line) > 0
    /\ Mentions(last.line, label) /\ Mentions(last.line, last.msg.level)
    /\ SubSeq(last.line, Len(last.line) - Len(last.msg.text) + 1, Len(last.line))
          = last.msg.text

\* C17 as claimed: whichever handler is active, the negotiation's or the
\* launch's, a 'log' message with an empty or white-space payload prints
\* nothing, any other 'log' message is printed as a leveled line, and neither
\* changes the outcome of the call.
C17_EveryHandlerForwardsLogs ==
    Given(1, {"log"}) =>
        /\ Blank(last.msg.text) => last.line = <<>>
        /\ ~Blank(last.msg.text) =>
              (Len(last.line) > 0 /\ Mentions(last.line, last.msg.level))
        /\ LogLeftOutcome

\* C17, amended: the handler of launchScript prints nothing for a 'log' message
\* with an empty or white-space payload and prints any other as a leveled line
\* tagged with targetName; the handler of testAndSelectProxyAddress (which is
\* given no label) prints nothing for any 'log' message; neither changes the
\* outcome of the call.
C17_LaunchForwardsLogsNegotiationDropsThem ==
    Given(1, {"log"}) =>
        /\ ops[1].kind = "launch" =>
              /\ Blank(last.msg.text) =>
                    (last.line = <<>> /\ last.effect = "discard")
              /\ ~Blank(last.msg.text) =>
                    (last.effect = "log" /\ LeveledLine(ops[1].targetName))
        /\ ops[1].kind = "negotiate" => (last.line = <<>> /\ last.effect = "none")
        /\ LogLeftOutcome

\* the launch handler is given a payload with text between white space and
\* prints it
C17_Witness ==
    /\ Given(1, {"log"}) /\ ops[1].kind = "launch"
    /\ last.msg.text = <<" ", "h", "i", " ">> /\ last.effect = "log"
    /\ LeveledLine(ops[1].targetName)

\* the last message made the launch fail: it rejected the promise, with the
\* diagnostic that carries its description
FailedTheLaunch ==
    /\ last.effect = "reject" /\ last.promiseWas = "pending"
    /\ ops[1].promise.state = "rejected"
    /\ Mentions(ops[1].promise.err[1].text, last.msg.description)

\* the last message was printed as a warning
Warned == last.effect = "warn" /\ Len(last.line) > 0

\* C18: every 'error' message given to the handler of launchScript has a
\* visible effect: it makes the launch fail or it is printed as a warning.
C18_EveryErrorIsVisible ==
    (Given(1, {"error"}) /\ ops[1].kind = "launch") => (FailedTheLaunch \/ Warned)

\* the last step gave the handler of the launch (call 1) an 'error' message
\* sent by the probe script of the negotiation made before it (call 2)
LateProbeError ==
    /\ ops[1].kind = "launch" /\ ops[2].kind = "negotiate"
    /\ Given(1, {"error"}) /\ last.from = 2

\* C19: when a negotiation and then a launch are made on one session, one after
\* the other, an 'error' message the probe script sends late does not change
\* the outcome of the launch: the launch's promise stays as it was.
C19_LateProbeErrorLeavesTheLaunch ==
    LateProbeError => ops[1].promise.state = last.promiseWas

\* C20: the address a successful testAndSelectProxyAddress returns is one of the
\* candidates that were probed (an interface address or an extra address),
\* whatever ip the 'connected' message carries.
C20_ReturnedIpIsACandidate ==
    \A i \in Negotiations :
        ops[i].result.state = "fulfilled" =>
            \E k \in DOMAIN ops[i].ips : ops[i].ips[k] = ops[i].result.ip

====
